---- MODULE Spec2Model ----
(***************************************************************************)
(* Model of the Idea Unpacker orchestrator (main.py run_flow and the step  *)
(* functions of steps.py).                                                 *)
(*                                                                         *)
(* Scores are floats in the program; the model holds them in tenths        *)
(* (8.5 is 85).  Every score of the set Scores and every difference of     *)
(* two of them compares to the threshold 0.5 in IEEE doubles exactly as    *)
(* the tenths compare to 5.                                                *)
(*                                                                         *)
(* One action is one resumption of the coroutine run_flow: the external    *)
(* call it awaits returns (or raises) and the code runs on to the next     *)
(* await, to a return or to the raise.                                     *)
(***************************************************************************)
EXTENDS Integers, Sequences, FiniteSets, TLC

VARIABLES
    pc,             \* position of run_flow: the await it is suspended at
    cycle,          \* the loop variable of "for cycle in range(...)"
    draft,          \* the local variable draft (a Draft), 0 version before step 6
    drafts,         \* list of Draft
    evaluations,    \* list of Evaluation
    score_history,  \* list of total_score
    format_spec,    \* the FormatSpec of step 5
    result,         \* <<>> or <<FlowResult>>: what run_flow returned
    calls,          \* the external calls made so far, in order
    response,       \* the parsed data of the last Evaluator response
    diagnosis,      \* the text of the last Failure Diagnoser response
    loop_exit,      \* how the refinement loop was left
    error,          \* the exception that left run_flow, "" if none
    max_cycles,     \* config.MAX_REFINEMENT_CYCLES as read by run_flow
    reply,          \* the last provider response: which call, and its kind
    format_data,    \* the parsed data of the format designer's response
    ideas,          \* step3_dual_scoring: the number of ideas to score
    tasks,          \* step3_dual_scoring: the two scorer calls of the gather
    first_done,     \* which scorer call completed first, 0 if none yet
    scored_ideas,   \* list of ScoredIdea
    top_index       \* index in scored_ideas of the selected idea, 0 if none

scoringVars == <<ideas, tasks, first_done, scored_ideas, top_index>>

vars == <<pc, cycle, draft, drafts, evaluations, score_history, format_spec,
          result, calls, response, diagnosis, loop_exit, error, max_cycles,
          reply, format_data, scoringVars>>

(***************************************************************************)
(* Configuration (config.py), scores in tenths.                            *)
(***************************************************************************)
MAX_REFINEMENT_CYCLES == 3
PLATEAU_THRESHOLD == 5
MINIMUM_BAR_FLOOR == 80
MINIMUM_BAR_LE == 100
FEEDBACK_KEEP == 3

(***************************************************************************)
(* Inputs of the environment.                                              *)
(***************************************************************************)
MaxFeedback == 4
Scores == {50, 53, 55, 60, 70, 75, 79, 80, 85, 90}
RawBars == {50, 80, 85, 105}
Diagnoses == {"", "bar unrealistic"}
NoReason == "<None>"

\* what a call to a provider can give: a usable response, an HTTP or
\* transport error, text that is not JSON, JSON without a required field
Outcomes == {"ok", "ServiceError", "Malformed", "MissingField"}
FormatFields == {"format_type", "rationale", "criteria", "minimum_bar"}
NoReply == [call |-> "", outcome |-> "", missing |-> ""]
NoTask == [status |-> "none", outcome |-> "", entries |-> <<>>]
Reply(call, outcome, missing) ==
    [call |-> call, outcome |-> outcome,
     missing |-> IF outcome = "MissingField" THEN missing ELSE ""]

Max(a, b) == IF a >= b THEN a ELSE b
Min(a, b) == IF a <= b THEN a ELSE b
Last(s) == s[Len(s)]
Count(s, x) == Cardinality({i \in 1..Len(s) : s[i] = x})
Iota(n) == [i \in 1..n |-> i]

(***************************************************************************)
(* schemas.py                                                              *)
(***************************************************************************)
Draft(v) == [version |-> v]

Evaluation(total, fb, plateau) ==
    [total_score |-> total, feedback |-> fb, plateau_detected |-> plateau]

FlowResult(success, fd, fs, used, reason) ==
    [success |-> success, final_draft |-> fd, final_score |-> fs,
     cycles_used |-> used, failure_reason |-> reason]

\* FormatSpec.minimum_bar: Field(..., ge=1, le=10)
FormatSpecValid(bar) == bar >= 10 /\ bar <= MINIMUM_BAR_LE

(***************************************************************************)
(* steps.py                                                                *)
(***************************************************************************)
\* variant: the floor is not applied
FlooredBar_NoFloor(present, raw) == IF present THEN raw ELSE 80

\* step5_format_and_criteria: max(data.get("minimum_bar", 8.0), FLOOR)
FlooredBar(present, raw) ==
    Max(IF present THEN raw ELSE 80, MINIMUM_BAR_FLOOR)

\* variant: one small improvement is enough (or instead of and)
PlateauDetected_Either(total_score, previous_scores) ==
    IF Len(previous_scores) > 0 /\ Len(previous_scores) >= 2
    THEN LET recent_improvement == total_score - previous_scores[Len(previous_scores)]
             prior_improvement ==
                 previous_scores[Len(previous_scores)]
                   - previous_scores[Len(previous_scores) - 1]
         IN  recent_improvement < PLATEAU_THRESHOLD
               \/ prior_improvement < PLATEAU_THRESHOLD
    ELSE FALSE

\* variant: improvements equal to the threshold count as small (<=)
PlateauDetected_Inclusive(total_score, previous_scores) ==
    IF Len(previous_scores) > 0 /\ Len(previous_scores) >= 2
    THEN LET recent_improvement == total_score - previous_scores[Len(previous_scores)]
             prior_improvement ==
                 previous_scores[Len(previous_scores)]
                   - previous_scores[Len(previous_scores) - 1]
         IN  recent_improvement <= PLATEAU_THRESHOLD
               /\ prior_improvement <= PLATEAU_THRESHOLD
    ELSE FALSE

\* variant: with one previous score the missing improvement counts as small
PlateauDetected_ColdStart(total_score, previous_scores) ==
    IF Len(previous_scores) > 0 /\ Len(previous_scores) >= 1
    THEN LET recent_improvement == total_score - previous_scores[Len(previous_scores)]
             prior_improvement ==
                 IF Len(previous_scores) > 1
                 THEN previous_scores[Len(previous_scores)]
                        - previous_scores[Len(previous_scores) - 1]
                 ELSE 0
         IN  recent_improvement < PLATEAU_THRESHOLD
               /\ prior_improvement < PLATEAU_THRESHOLD
    ELSE FALSE

\* step7_evaluate, "Detect plateau"
PlateauDetected(total_score, previous_scores) ==
    IF Len(previous_scores) > 0 /\ Len(previous_scores) >= 2
    THEN LET recent_improvement == total_score - previous_scores[Len(previous_scores)]
             prior_improvement ==
                 IF Len(previous_scores) > 1
                 THEN previous_scores[Len(previous_scores)]
                        - previous_scores[Len(previous_scores) - 1]
                 ELSE 10
         IN  recent_improvement < PLATEAU_THRESHOLD
               /\ prior_improvement < PLATEAU_THRESHOLD
    ELSE FALSE

\* variant: the feedback list is passed on whole
TruncateFeedback_Whole(fb) == fb

\* step7_evaluate: data["feedback"][:3]
TruncateFeedback(fb) == SubSeq(fb, 1, Min(Len(fb), FEEDBACK_KEEP))

\* step7_evaluate: the Evaluation built from the parsed response
step7_evaluate(data, previous_scores) ==
    Evaluation(data.total_score,
               TruncateFeedback(data.feedback),
               PlateauDetected(data.total_score, previous_scores))

\* variant: the refined draft keeps the version of its input
step7b_refine_SameVersion(d) == Draft(d.version)

\* step7b_refine: the Draft built from the response
step7b_refine(d) == Draft(d.version + 1)

\* step6_articulate: the Draft built from the response
step6_articulate == Draft(1)

(***************************************************************************)
(* llm_clients.py                                                          *)
(***************************************************************************)
\* raise_for_status (ServiceError) and json.loads in parse_json_response
\* (Malformed); a missing key raises where the step reads it
ErrorOf(outcome, on_missing) ==
    CASE outcome = "ServiceError" -> "CallFailed"
      [] outcome = "Malformed" -> "JSONDecodeError"
      [] outcome = "MissingField" -> on_missing

(***************************************************************************)
(* main.py, main and run_flow                                              *)
(***************************************************************************)
\* variant: main reports every exception and returns
MainOutcome_Swallow(e) == "aborted"

\* main: except KeyboardInterrupt prints and returns, except Exception
\* prints and re-raises
MainOutcome(e) == IF e = "KeyboardInterrupt" THEN "aborted" ELSE "error"

InitFlow ==
    /\ pc = "step2"
    /\ cycle = 0
    /\ draft = Draft(0)
    /\ drafts = <<>>
    /\ evaluations = <<>>
    /\ score_history = <<>>
    /\ format_spec = [minimum_bar |-> 0]
    /\ result = <<>>
    /\ calls = <<>>
    /\ response = [total_score |-> 0, feedback |-> <<>>]
    /\ diagnosis = NoReason
    /\ loop_exit = "none"
    /\ error = ""
    /\ reply = NoReply
    /\ format_data = [has_minimum_bar |-> FALSE, minimum_bar |-> 0]

\* the scoring of step 3 before it starts
InitScoring ==
    /\ tasks = <<NoTask, NoTask>>
    /\ first_done = 0
    /\ scored_ideas = <<>>
    /\ top_index = 0

Init ==
    /\ InitFlow
    /\ InitScoring
    /\ ideas = 0
    /\ max_cycles = MAX_REFINEMENT_CYCLES

Raise(e, made) ==
    /\ pc' = MainOutcome(e)
    /\ error' = e
    /\ calls' = calls \o made

\* Step 1 and 2: get_user_input, then await step2_generate_ideas
Step2 ==
    /\ pc = "step2"
    /\ UNCHANGED scoringVars
    /\ \E input \in {"ok", "KeyboardInterrupt", "ValidationError"},
          out \in Outcomes :
         IF input # "ok"
         THEN /\ Raise(input, <<>>)
              /\ UNCHANGED reply
         ELSE /\ reply' = Reply("ideas", out, "name")
              /\ IF out = "ok"
                 THEN /\ pc' = "step3"
                      /\ calls' = Append(calls, "ideas")
                      /\ UNCHANGED error
                 ELSE Raise(ErrorOf(out, "ValidationError"), <<"ideas">>)
    /\ UNCHANGED <<cycle, draft, drafts, evaluations, score_history,
                   format_spec, result, response, diagnosis, loop_exit,
                   max_cycles, format_data>>

\* Step 3 and 4: await step3_dual_scoring (both scorers), then selection
\* and the user checkpoint, which make no external call
Step3 ==
    /\ pc = "step3"
    /\ UNCHANGED scoringVars
    /\ \E out \in Outcomes, input \in {"ok", "KeyboardInterrupt"} :
         /\ reply' = Reply("scorers", out, "score")
         /\ IF out = "ok"
            THEN IF input = "ok"
                 THEN /\ pc' = "step5"
                      /\ calls' = calls \o <<"scorer_1", "scorer_2">>
                      /\ UNCHANGED error
                 ELSE Raise(input, <<"scorer_1", "scorer_2">>)
            ELSE Raise(ErrorOf(out, "KeyError"), <<"scorer_1", "scorer_2">>)
    /\ UNCHANGED <<cycle, draft, drafts, evaluations, score_history,
                   format_spec, result, response, diagnosis, loop_exit,
                   max_cycles, format_data>>

\* Step 5: await step5_format_and_criteria
Step5 ==
    /\ pc = "step5"
    /\ UNCHANGED scoringVars
    /\ \E out \in Outcomes, field \in FormatFields, raw \in RawBars :
         LET present == ~(out = "MissingField" /\ field = "minimum_bar")
             parsed == out = "ok" \/ out = "MissingField"
             bar == FlooredBar(present, raw)
             \* FormatSpec(**data): every other field is required
             complete == out = "ok" \/ ~present
         IN
         /\ reply' = Reply("format", out, field)
         /\ IF parsed
            THEN /\ format_data' = [has_minimum_bar |-> present,
                                     minimum_bar |-> IF present THEN raw ELSE 0]
                 /\ IF complete /\ FormatSpecValid(bar)
                    THEN /\ pc' = "step6"
                         /\ format_spec' = [minimum_bar |-> bar]
                         /\ calls' = Append(calls, "format")
                         /\ UNCHANGED error
                    ELSE /\ Raise("ValidationError", <<"format">>)
                         /\ UNCHANGED format_spec
            ELSE /\ Raise(ErrorOf(out, "ValidationError"), <<"format">>)
                 /\ UNCHANGED <<format_spec, format_data>>
    /\ UNCHANGED <<cycle, draft, drafts, evaluations, score_history,
                   result, response, diagnosis, loop_exit, max_cycles>>

\* variant: the bar must be exceeded (> instead of >=)
BarMet_Strict(evaluation, spec) == evaluation.total_score > spec.minimum_bar

\* "Check success": total_score >= minimum_bar
BarMet(evaluation, spec) == evaluation.total_score >= spec.minimum_bar

\* variant: refine in the last cycle too
RefineAllowed_LastToo(c) == c < max_cycles

\* variant: never refine
RefineAllowed_Never(c) == FALSE

\* "Refine if not last cycle"
RefineAllowed(c) == c < max_cycles - 1

\* variant: one iteration too many
LoopContinues_OneMore(c) == c + 1 < max_cycles + 1

\* variant: the loop runs twice the configured number of iterations
LoopContinues_Twice(c) == c + 1 < 2 * max_cycles

\* the for loop over range(config.MAX_REFINEMENT_CYCLES): is there an
\* iteration after iteration c (c = -1 before the first)
LoopContinues(c) == c + 1 < max_cycles

\* variant: the plateau check comes before the acceptance check
LoopDecision_PlateauFirst(evaluation, spec, c) ==
    IF evaluation.plateau_detected THEN "break"
    ELSE IF BarMet(evaluation, spec) THEN "return"
    ELSE IF RefineAllowed(c)
         THEN IF Len(evaluation.feedback) = 0 THEN "IndexError" ELSE "refine"
    ELSE IF LoopContinues(c) THEN "next"
    ELSE "exhausted"

\* variant: no plateau check
LoopDecision_NoPlateau(evaluation, spec, c) ==
    IF BarMet(evaluation, spec) THEN "return"
    ELSE IF RefineAllowed(c)
         THEN IF Len(evaluation.feedback) = 0 THEN "IndexError" ELSE "refine"
    ELSE IF LoopContinues(c) THEN "next"
    ELSE "exhausted"

\* the loop body after the evaluation is recorded, up to the next await:
\* "Check success", "Check plateau", "Refine if not last cycle", and the
\* end of the iteration
LoopDecision(evaluation, spec, c) ==
    IF BarMet(evaluation, spec) THEN "return"
    ELSE IF evaluation.plateau_detected THEN "break"
    ELSE IF RefineAllowed(c)
         THEN IF Len(evaluation.feedback) = 0
              THEN "IndexError"    \* evaluation.feedback[0] on an empty list
              ELSE "refine"
    ELSE IF LoopContinues(c) THEN "next"
    ELSE "exhausted"

\* variant: a reason is given on success too
SuccessResult_WithReason(d, evaluation, c) ==
    FlowResult(TRUE, d, evaluation.total_score, c + 1, "accepted")

\* variant: cycles_used is the loop index
SuccessResult_LoopIndex(d, evaluation, c) ==
    FlowResult(TRUE, d, evaluation.total_score, c, NoReason)

\* return FlowResult(success=True, ...)
SuccessResult(d, evaluation, c) ==
    FlowResult(TRUE, d, evaluation.total_score, c + 1, NoReason)

\* variant: the diagnosis is not put in the result
FailureResult_NoReason(ds, scores, evals, failure_reason) ==
    FlowResult(FALSE, Last(ds), Last(scores), Len(evals), NoReason)

\* return FlowResult(success=False, ...)
FailureResult(ds, scores, evals, failure_reason) ==
    FlowResult(FALSE, Last(ds), Last(scores), Len(evals), failure_reason)

\* Step 6: await step6_articulate, drafts.append(draft), then the first
\* iteration of the loop if there is one
Step6 ==
    /\ pc = "step6"
    /\ UNCHANGED scoringVars
    /\ \E out \in Outcomes :
         /\ reply' = Reply("generator", out, "content")
         /\ IF out = "ok"
            THEN /\ draft' = step6_articulate
                 /\ drafts' = Append(drafts, step6_articulate)
                 /\ calls' = Append(calls, "generator")
                 /\ IF LoopContinues(-1)
                    THEN /\ cycle' = 0
                         /\ pc' = "evaluate"
                         /\ UNCHANGED loop_exit
                    ELSE /\ pc' = "failure"
                         /\ loop_exit' = "exhausted"
                         /\ UNCHANGED cycle
                 /\ UNCHANGED error
            ELSE /\ Raise(ErrorOf(out, "KeyError"), <<"generator">>)
                 /\ UNCHANGED <<draft, drafts, cycle, loop_exit>>
    /\ UNCHANGED <<evaluations, score_history, format_spec, result,
                   response, diagnosis, max_cycles, format_data>>

\* Step 7: await step7_evaluate, record the evaluation, then the loop body
\* up to the next await; the scores come from S and the number of
\* feedback entries from F
EvaluateWith(S, F) ==
    /\ pc = "evaluate"
    /\ UNCHANGED scoringVars
    /\ \E out \in Outcomes, total \in S, n \in F :
         LET data == [total_score |-> total, feedback |-> Iota(n)]
             evaluation == step7_evaluate(data, score_history)
             decision == LoopDecision(evaluation, format_spec, cycle)
         IN
         /\ reply' = Reply("evaluator", out, "total_score")
         /\ IF out # "ok"
            THEN /\ Raise(ErrorOf(out, "KeyError"), <<"evaluator">>)
                 /\ UNCHANGED <<cycle, evaluations, score_history, result,
                                response, loop_exit>>
            ELSE /\ response' = data
                 /\ evaluations' = Append(evaluations, evaluation)
                 /\ score_history' = Append(score_history, evaluation.total_score)
                 /\ calls' = Append(calls, "evaluator")
                 /\ pc' = CASE decision = "return" -> "done"
                            [] decision = "break" -> "failure"
                            [] decision = "IndexError" -> MainOutcome("IndexError")
                            [] decision = "refine" -> "refine"
                            [] decision = "next" -> "evaluate"
                            [] decision = "exhausted" -> "failure"
                 /\ result' = IF decision = "return"
                               THEN <<SuccessResult(draft, evaluation, cycle)>>
                               ELSE result
                 /\ loop_exit' = CASE decision = "return" -> "accepted"
                                   [] decision = "break" -> "plateaued"
                                   [] decision = "exhausted" -> "exhausted"
                                   [] OTHER -> loop_exit
                 /\ cycle' = IF decision = "next" THEN cycle + 1 ELSE cycle
                 /\ error' = IF decision = "IndexError" THEN "IndexError" ELSE error
    /\ UNCHANGED <<draft, drafts, format_spec, diagnosis, max_cycles,
                   format_data>>

Evaluate == EvaluateWith(Scores, 0..MaxFeedback)

\* Step 7, refinement: await step7b_refine, drafts.append(draft), then the
\* next iteration of the loop (a refinement is never in the last iteration)
Refine ==
    /\ pc = "refine"
    /\ UNCHANGED scoringVars
    /\ \E out \in Outcomes :
         /\ reply' = Reply("refiner", out, "content")
         /\ IF out = "ok"
            THEN /\ draft' = step7b_refine(draft)
                 /\ drafts' = Append(drafts, step7b_refine(draft))
                 /\ calls' = Append(calls, "refiner")
                 /\ IF LoopContinues(cycle)
                    THEN /\ cycle' = cycle + 1
                         /\ pc' = "evaluate"
                         /\ UNCHANGED loop_exit
                    ELSE /\ pc' = "failure"
                         /\ loop_exit' = "exhausted"
                         /\ UNCHANGED cycle
                 /\ UNCHANGED error
            ELSE /\ Raise(ErrorOf(out, "KeyError"), <<"refiner">>)
                 /\ UNCHANGED <<draft, drafts, cycle, loop_exit>>
    /\ UNCHANGED <<evaluations, score_history, format_spec, result, response,
                   diagnosis, max_cycles, format_data>>

\* Step 8: await step8_failure_analysis (plain text, not parsed), return
\* FlowResult(success=False); score_history[-1] raises on an empty history
Diagnose ==
    /\ pc = "failure"
    /\ UNCHANGED scoringVars
    /\ \E out \in {"ok", "ServiceError"}, text \in Diagnoses :
         /\ reply' = Reply("diagnoser", out, "")
         /\ IF out = "ok"
            THEN /\ diagnosis' = text
                 /\ calls' = Append(calls, "diagnoser")
                 /\ IF Len(score_history) = 0
                    THEN /\ pc' = MainOutcome("IndexError")
                         /\ error' = "IndexError"
                         /\ UNCHANGED result
                    ELSE /\ result' = <<FailureResult(drafts, score_history,
                                                       evaluations, text)>>
                         /\ pc' = "done"
                         /\ UNCHANGED error
            ELSE /\ Raise(ErrorOf(out, ""), <<"diagnoser">>)
                 /\ UNCHANGED <<result, diagnosis>>
    /\ UNCHANGED <<cycle, draft, drafts, evaluations, score_history,
                   format_spec, response, loop_exit, max_cycles, format_data>>

Next ==
    \/ Step2
    \/ Step3
    \/ Step5
    \/ Step6
    \/ Evaluate
    \/ Refine
    \/ Diagnose

Spec == Init /\ [][Next]_vars

(***************************************************************************)
(* run_flow under any configured number of cycles, from 0 to MaxCycles,    *)
(* with fewer scores and feedback lengths per evaluation.                  *)
(***************************************************************************)
MaxCycles == 4
CfgScores == {70, 72, 74, 80, 85}
CfgFeedback == {0, 2, MaxFeedback}

InitCfg ==
    /\ InitFlow
    /\ InitScoring
    /\ ideas = 0
    /\ max_cycles \in 0..MaxCycles

EvaluateCfg == EvaluateWith(CfgScores, CfgFeedback)

NextCfg ==
    \/ Step2
    \/ Step3
    \/ Step5
    \/ Step6
    \/ EvaluateCfg
    \/ Refine
    \/ Diagnose

SpecCfg == InitCfg /\ [][NextCfg]_vars

(***************************************************************************)
(* run_flow under any configured number of cycles when every call it       *)
(* awaits comes back: each provider call is made with timeout=60.0         *)
(* (llm_clients.py), so it returns or raises, and the coroutine is then    *)
(* resumed.  One action is one such resumption, and at most one is         *)
(* enabled at a time.                                                      *)
(***************************************************************************)
SpecCfgFair == InitCfg /\ [][NextCfg]_vars /\ WF_vars(NextCfg)

(***************************************************************************)
(* step7_evaluate on its own: any previous_scores (None and [] are both    *)
(* the empty list here, both are falsy) and any response.                  *)
(***************************************************************************)
MaxPrev == 3

RECURSIVE SeqsUpTo(_, _)
SeqsUpTo(S, n) ==
    IF n = 0 THEN {<<>>}
    ELSE LET shorter == SeqsUpTo(S, n - 1)
         IN  shorter \cup {Append(q, x) : q \in {r \in shorter : Len(r) = n - 1}, x \in S}

InitPlateau ==
    /\ pc = "step7_evaluate"
    /\ score_history \in SeqsUpTo(Scores, MaxPrev)
    /\ \E total \in Scores, n \in 0..MaxFeedback :
         response = [total_score |-> total, feedback |-> Iota(n)]
    /\ cycle = 0
    /\ draft = Draft(1)
    /\ drafts = <<Draft(1)>>
    /\ evaluations = <<>>
    /\ format_spec = [minimum_bar |-> MINIMUM_BAR_FLOOR]
    /\ result = <<>>
    /\ calls = <<>>
    /\ diagnosis = NoReason
    /\ loop_exit = "none"
    /\ error = ""
    /\ max_cycles = MAX_REFINEMENT_CYCLES
    /\ reply = NoReply
    /\ format_data = [has_minimum_bar |-> FALSE, minimum_bar |-> 0]
    /\ InitScoring
    /\ ideas = 0

\* the call returns its Evaluation
CallStep7Evaluate ==
    /\ pc = "step7_evaluate"
    /\ UNCHANGED scoringVars
    /\ evaluations' = <<step7_evaluate(response, score_history)>>
    /\ calls' = Append(calls, "evaluator")
    /\ pc' = "returned"
    /\ UNCHANGED <<cycle, draft, drafts, score_history, format_spec, result,
                   response, diagnosis, loop_exit, error, max_cycles, reply,
                   format_data>>

NextPlateau == CallStep7Evaluate

SpecPlateau == InitPlateau /\ [][NextPlateau]_vars

(***************************************************************************)
(* step3_dual_scoring and step3b_select_top_idea on their own: the two     *)
(* scorer calls of asyncio.gather complete in any order.  Scores are in    *)
(* tenths and multiples of 10, so that the mean of two is a whole number   *)
(* of tenths.  An entry 0 stands for a response with no entry for the idea.*)
(***************************************************************************)
SCORE_DIVERGENCE_THRESHOLD == 20
DEFAULT_SCORE == 50
MaxIdeas == 3
ScorerEntries == {0, 40, 60, 90, 110}

Abs(x) == IF x < 0 THEN -x ELSE x

\* scores.get(i, {"score": 5, "rationale": "No score"})["score"]
ScoreOf(entries, i) == IF entries[i] = 0 THEN DEFAULT_SCORE ELSE entries[i]

\* ScoredIdea(idea=..., score_1=..., score_2=..., score_delta=..., combined_score=...)
ScoredIdea(i, s1, s2) ==
    [idea |-> i, score_1 |-> s1, score_2 |-> s2,
     score_delta |-> Abs(s1 - s2), combined_score |-> (s1 + s2) \div 2]

\* ScoredIdea.score_1, score_2: Field(..., ge=1, le=10)
ScoredIdeaValid(si) ==
    /\ si.score_1 >= 10 /\ si.score_1 <= 100
    /\ si.score_2 >= 10 /\ si.score_2 <= 100

\* variant: the results come in the order of completion
GatherResults_CompletionOrder(ts, first) ==
    IF first = 2 THEN <<ts[2], ts[1]>> ELSE <<ts[1], ts[2]>>

\* asyncio.gather: the results are in the order of the arguments
GatherResults(ts, first) == <<ts[1], ts[2]>>

\* step3_dual_scoring: the list built from the two parsed responses
step3_dual_scoring(n, results) ==
    [i \in 1..n |-> ScoredIdea(i, ScoreOf(results[1].entries, i),
                                  ScoreOf(results[2].entries, i))]

\* variant: a delta equal to the threshold counts as divergent
RECURSIVE DivergentFrom_Inclusive(_, _)
DivergentFrom_Inclusive(sc, k) ==
    IF k > Len(sc) THEN <<>>
    ELSE (IF sc[k].score_delta >= SCORE_DIVERGENCE_THRESHOLD THEN <<k>> ELSE <<>>)
           \o DivergentFrom_Inclusive(sc, k + 1)

\* [s for s in scored_ideas if s.score_delta > THRESHOLD], as indices,
\* from index k on
RECURSIVE DivergentFrom(_, _)
DivergentFrom(sc, k) ==
    IF k > Len(sc) THEN <<>>
    ELSE (IF sc[k].score_delta > SCORE_DIVERGENCE_THRESHOLD THEN <<k>> ELSE <<>>)
           \o DivergentFrom(sc, k + 1)

\* max(..., key=lambda x: x.combined_score): the first of the largest
RECURSIVE PyMaxFrom(_, _, _, _)
PyMaxFrom(sc, I, k, best) ==
    IF k > Len(I) THEN best
    ELSE PyMaxFrom(sc, I, k + 1,
                   IF sc[I[k]].combined_score > sc[best].combined_score
                   THEN I[k] ELSE best)

PyMax(sc, I) == PyMaxFrom(sc, I, 2, I[1])

\* step3b_select_top_idea, as the index scored_ideas.index(top_idea)
step3b_select_top_idea(sc) ==
    LET divergent == DivergentFrom(sc, 1)
    IN  IF Len(divergent) > 0
        THEN PyMax(sc, divergent)
        ELSE PyMax(sc, Iota(Len(sc)))

InitDualScoring ==
    /\ pc = "step3"
    /\ ideas \in 0..MaxIdeas
    /\ InitScoring
    /\ calls = <<"ideas">>
    /\ cycle = 0
    /\ draft = Draft(0)
    /\ drafts = <<>>
    /\ evaluations = <<>>
    /\ score_history = <<>>
    /\ format_spec = [minimum_bar |-> 0]
    /\ result = <<>>
    /\ response = [total_score |-> 0, feedback |-> <<>>]
    /\ diagnosis = NoReason
    /\ loop_exit = "none"
    /\ error = ""
    /\ max_cycles = MAX_REFINEMENT_CYCLES
    /\ reply = NoReply
    /\ format_data = [has_minimum_bar |-> FALSE, minimum_bar |-> 0]

flowVars == <<cycle, draft, drafts, evaluations, score_history, format_spec,
              result, response, diagnosis, loop_exit, max_cycles, reply,
              format_data, ideas>>

\* step3_dual_scoring up to the await: both calls are handed to gather
StartScorers ==
    /\ pc = "step3"
    /\ pc' = "gather"
    /\ tasks' = <<[NoTask EXCEPT !.status = "pending"],
                  [NoTask EXCEPT !.status = "pending"]>>
    /\ calls' = calls \o <<"scorer_1", "scorer_2">>
    /\ UNCHANGED <<first_done, scored_ideas, top_index, error>>
    /\ UNCHANGED flowVars

\* scorer call i completes: with a response, or with an exception that
\* gather hands at once to the awaiting step3_dual_scoring
ScorerReturns(i) ==
    /\ pc = "gather"
    /\ tasks[i].status = "pending"
    /\ \E out \in Outcomes :
       \E e \in (IF out = "ok" THEN [1..ideas -> ScorerEntries] ELSE {<<>>}) :
         /\ first_done' = IF first_done = 0 THEN i ELSE first_done
         /\ IF out = "ServiceError"
            THEN /\ tasks' = [tasks EXCEPT ![i] = [NoTask EXCEPT !.status = "failed",
                                                               !.outcome = out]]
                 /\ pc' = MainOutcome("CallFailed")
                 /\ error' = "CallFailed"
            ELSE /\ tasks' = [tasks EXCEPT ![i] = [status |-> "done",
                                                   outcome |-> out,
                                                   entries |-> e]]
                 /\ UNCHANGED <<pc, error>>
    /\ UNCHANGED <<scored_ideas, top_index, calls>>
    /\ UNCHANGED flowVars

\* both calls are done: gather returns, the responses are parsed (the
\* first, then the second; a missing idea_index raises there), the list is
\* built and, back in run_flow, the top idea is selected
JoinScorers ==
    /\ pc = "gather"
    /\ tasks[1].status = "done"
    /\ tasks[2].status = "done"
    /\ LET results == GatherResults(tasks, first_done)
           scored == step3_dual_scoring(ideas, results)
           failure ==
               IF results[1].outcome # "ok" THEN ErrorOf(results[1].outcome, "KeyError")
               ELSE IF results[2].outcome # "ok" THEN ErrorOf(results[2].outcome, "KeyError")
               ELSE IF \E i \in 1..ideas : ~ScoredIdeaValid(scored[i]) THEN "ValidationError"
               ELSE IF ideas = 0 THEN "ValueError"    \* max() of an empty list
               ELSE ""
       IN  /\ scored_ideas' = IF failure \in {"", "ValueError"} THEN scored ELSE <<>>
           /\ top_index' = IF failure = "" THEN step3b_select_top_idea(scored) ELSE 0
           /\ pc' = IF failure = "" THEN "step4" ELSE MainOutcome(failure)
           /\ error' = failure
    /\ UNCHANGED <<tasks, first_done, calls>>
    /\ UNCHANGED flowVars

NextDualScoring ==
    \/ StartScorers
    \/ \E i \in {1, 2} : ScorerReturns(i)
    \/ JoinScorers

SpecDualScoring == InitDualScoring /\ [][NextDualScoring]_vars

(***************************************************************************)
(* Properties                                                              *)
(***************************************************************************)
Returned == Len(result) = 1
Evaluators == Count(calls, "evaluator")
Refiners == Count(calls, "refiner")
Diagnosers == Count(calls, "diagnoser")

\* C1: the first evaluation k whose total_score >= minimum_bar (k = 1
\* included) ends run_flow with a FlowResult with success = true and
\* cycles_used = k, and no Evaluator, Refiner or Failure Diagnoser call
\* follows that evaluation.
C1_AcceptedAtFirstBarMet ==
    \A k \in 1..Len(evaluations) :
        evaluations[k].total_score >= format_spec.minimum_bar =>
            /\ k = Len(evaluations)
            /\ pc = "done"
            /\ Returned
            /\ result[1].success = TRUE
            /\ result[1].cycles_used = k
            /\ Last(calls) = "evaluator"
            /\ Evaluators = k
            /\ Refiners = k - 1
            /\ Diagnosers = 0

C1_Witness ==
    /\ pc = "done"
    /\ Len(evaluations) = 1
    /\ evaluations[1].total_score = format_spec.minimum_bar
    /\ Returned
    /\ result[1].cycles_used = 1

\* C2: whatever the scores, one run makes at most MAX_REFINEMENT_CYCLES
\* evaluations and at most MAX_REFINEMENT_CYCLES Refiner calls, and
\* cycles_used of a FlowResult is at most MAX_REFINEMENT_CYCLES.
C2_CyclesBounded ==
    /\ Evaluators <= MAX_REFINEMENT_CYCLES
    /\ Len(evaluations) <= MAX_REFINEMENT_CYCLES
    /\ Refiners <= MAX_REFINEMENT_CYCLES
    /\ Returned => result[1].cycles_used <= MAX_REFINEMENT_CYCLES

C2_Witness ==
    /\ Returned
    /\ result[1].cycles_used = MAX_REFINEMENT_CYCLES
    /\ Evaluators = MAX_REFINEMENT_CYCLES
    /\ result[1].success = FALSE

\* C3: an evaluation with total_score >= minimum_bar and plateau_detected
\* at once ends the run with success = true, and the Failure Diagnoser is
\* not invoked.
C3_AcceptanceBeforePlateau ==
    \A k \in 1..Len(evaluations) :
        (evaluations[k].total_score >= format_spec.minimum_bar
           /\ evaluations[k].plateau_detected) =>
            /\ Returned
            /\ result[1].success = TRUE
            /\ loop_exit = "accepted"
            /\ Diagnosers = 0
            /\ pc = "done"

C3_Witness ==
    /\ Len(evaluations) = 3
    /\ evaluations[3].plateau_detected
    /\ evaluations[3].total_score >= format_spec.minimum_bar
    /\ pc = "done"

\* C4: the plateau flag of the Evaluation step7_evaluate returns is true
\* iff there are at least 3 scores (the current one and at least 2
\* previous) and the last improvement and the one before it are both
\* strictly below PLATEAU_THRESHOLD; [5.0, 5.3, 5.5] is flagged and
\* [5.0, 6.0, 7.5] is not.
C4_PlateauRule ==
    pc = "returned" =>
        LET scores == Append(score_history, response.total_score)
            n == Len(scores)
        IN  /\ evaluations[1].plateau_detected <=>
                  (/\ n >= 3
                   /\ scores[n] - scores[n - 1] < PLATEAU_THRESHOLD
                   /\ scores[n - 1] - scores[n - 2] < PLATEAU_THRESHOLD)
            /\ n < 3 => ~evaluations[1].plateau_detected
            /\ scores = <<50, 53, 55>> => evaluations[1].plateau_detected
            /\ scores = <<50, 60, 75>> => ~evaluations[1].plateau_detected

C4_Witness ==
    /\ pc = "returned"
    /\ score_history = <<50, 53>>
    /\ response.total_score = 55
    /\ evaluations[1].plateau_detected

\* C5: the Draft history holds the versions 1, 2, ..., n in that order:
\* the first draft has version 1 and each Refiner call appends a draft of
\* the previous version plus 1.
C5_VersionsConsecutive ==
    /\ \A i \in 1..Len(drafts) : drafts[i].version = i
    /\ Len(drafts) >= 1 => draft = Last(drafts)
    /\ Len(drafts) = 0 => Refiners = 0

C5_Witness ==
    /\ Len(drafts) = 3
    /\ drafts[3].version = 3
    /\ Refiners = 2

\* a refined draft is in the history and its evaluation is not recorded:
\* run_flow waits for the Evaluator, or that Evaluator call raised
AwaitingEvaluation ==
    \/ pc = "evaluate"
    \/ /\ pc = "error"
       /\ error \in {"CallFailed", "JSONDecodeError", "KeyError"}
       /\ Last(calls) = "evaluator"

\* C6 as stated: at every point after the first evaluation is recorded,
\* the Draft history and the Evaluation history have equal length.
C6_EqualLengthAlways ==
    Len(evaluations) >= 1 => Len(drafts) = Len(evaluations)

\* C6 amended: after the first evaluation is recorded the Draft history is
\* as long as the Evaluation history, except from the moment a refined
\* draft is appended until its evaluation is recorded, when it is longer
\* by exactly one; the lengths are equal whenever a FlowResult is returned.
C6_EqualLengthButPending ==
    Len(evaluations) >= 1 =>
        /\ Len(drafts) = Len(evaluations) + (IF AwaitingEvaluation THEN 1 ELSE 0)
        /\ Returned => Len(drafts) = Len(evaluations)

C6_Witness ==
    /\ pc = "evaluate"
    /\ Len(evaluations) = 1
    /\ Len(drafts) = 2
    /\ Last(calls) = "refiner"

\* C7: every Evaluation step7_evaluate returns, and so every Evaluation
\* given to the Refiner, has at most 3 feedback entries, however many the
\* Evaluator's response has: the first 3, in order.
C7_FeedbackTruncated ==
    /\ \A k \in 1..Len(evaluations) : Len(evaluations[k].feedback) <= 3
    /\ Len(evaluations) >= 1 =>
          LET kept == Last(evaluations).feedback
              sent == response.feedback
          IN  /\ Len(kept) = (IF Len(sent) > 3 THEN 3 ELSE Len(sent))
              /\ \A i \in 1..Len(kept) : kept[i] = sent[i]
    /\ pc = "refine" => Len(Last(evaluations).feedback) \in 1..3

C7_Witness ==
    /\ pc = "refine"
    /\ Len(response.feedback) > 3
    /\ Last(evaluations).feedback = <<1, 2, 3>>

\* C8: minimum_bar 8.5, scores 6.0, 7.9, 8.0: no plateau at cycle 3, the
\* loop is exhausted after 3 evaluations and 2 refinements, the Failure
\* Diagnoser is invoked and the FlowResult has success = false,
\* final_score = 8.0 and cycles_used = 3.
C8_ScenarioExhausted ==
    (format_spec.minimum_bar = 85 /\ score_history = <<60, 79, 80>>) =>
        /\ ~evaluations[3].plateau_detected
        /\ loop_exit = "exhausted"
        /\ Evaluators = 3
        /\ Refiners = 2
        /\ pc \in {"failure", "done", "error"}
        /\ pc = "failure" => Diagnosers = 0 /\ ~Returned
        /\ pc = "error" => Last(calls) = "diagnoser" /\ ~Returned
        /\ pc = "done" =>
              /\ Diagnosers = 1
              /\ Returned
              /\ result[1].success = FALSE
              /\ result[1].final_score = 80
              /\ result[1].cycles_used = 3

C8_Witness ==
    /\ format_spec.minimum_bar = 85
    /\ score_history = <<60, 79, 80>>
    /\ pc = "done"
    /\ Diagnosers = 1

\* C9: minimum_bar 8.5, scores 7.0 then 9.0: accepted at cycle 2 after
\* exactly 2 evaluations and 1 refinement; success = true, cycles_used = 2,
\* final_score = 9.0, final_draft of version 2, no Failure Diagnoser call.
C9_ScenarioAccepted ==
    (/\ format_spec.minimum_bar = 85
     /\ Len(score_history) >= 2
     /\ score_history[1] = 70
     /\ score_history[2] = 90) =>
        /\ score_history = <<70, 90>>
        /\ pc = "done"
        /\ loop_exit = "accepted"
        /\ Evaluators = 2
        /\ Refiners = 1
        /\ Diagnosers = 0
        /\ result = <<FlowResult(TRUE, Draft(2), 90, 2, NoReason)>>

C9_Witness ==
    /\ format_spec.minimum_bar = 85
    /\ score_history = <<70, 90>>
    /\ Returned
    /\ result[1].final_draft.version = 2

\* C10: when the loop ends without acceptance (plateaued or exhausted)
\* run_flow calls the Failure Diagnoser exactly once, after the last
\* evaluation, and when that call returns it returns a FlowResult with
\* success = false whose failure_reason is the diagnosis; no Evaluator or
\* Refiner call follows the diagnosis.
C10_FailurePath ==
    /\ [](loop_exit \in {"plateaued", "exhausted"} =>
            /\ pc \in {"failure", "done", "error"}
            /\ ~BarMet(Last(evaluations), format_spec)
            /\ pc = "failure" => Diagnosers = 0 /\ ~Returned
            /\ pc # "failure" =>
                  /\ Diagnosers = 1
                  /\ Last(calls) = "diagnoser"
                  /\ calls[Len(calls) - 1] = "evaluator"
            /\ pc = "done" =>
                  /\ Returned
                  /\ result[1].success = FALSE
                  /\ result[1].failure_reason = diagnosis
                  /\ diagnosis \in Diagnoses)
    /\ [](Diagnosers > 0 => loop_exit \in {"plateaued", "exhausted"})
    /\ [][pc = "failure" =>
            /\ calls' = Append(calls, "diagnoser")
            /\ evaluations' = evaluations
            /\ drafts' = drafts
            /\ pc' \in {"done", "error"}]_vars

C10_Witness ==
    /\ loop_exit = "plateaued"
    /\ pc = "done"
    /\ Returned
    /\ result[1].failure_reason = "bar unrealistic"
    /\ Last(calls) = "diagnoser"

\* C11: an evaluation with total_score < minimum_bar and plateau_detected
\* stops the loop: no Refiner and no Evaluator call follows it, however
\* many cycles are left, and the failure path is taken.
C11_PlateauStopsEarly ==
    \A k \in 1..Len(evaluations) :
        (evaluations[k].total_score < format_spec.minimum_bar
           /\ evaluations[k].plateau_detected) =>
            /\ k = Len(evaluations)
            /\ Evaluators = k
            /\ Refiners = k - 1
            /\ Len(drafts) = k
            /\ loop_exit = "plateaued"
            /\ pc \in {"failure", "done", "error"}
            /\ pc # "failure" => Last(calls) = "diagnoser"
            /\ Returned => result[1].success = FALSE

C11_Witness ==
    /\ max_cycles = 4
    /\ Len(evaluations) = 3
    /\ evaluations[3].plateau_detected
    /\ evaluations[3].total_score < format_spec.minimum_bar
    /\ pc = "done"
    /\ result[1].cycles_used = 3

\* the k-th evaluation is below the bar and not flagged as a plateau
BelowBarNoPlateau(k) ==
    /\ evaluations[k].total_score < format_spec.minimum_bar
    /\ ~evaluations[k].plateau_detected

\* C12: after the k-th evaluation, below the bar and without plateau, with
\* k below the maximum, the Refiner is invoked once on the current draft,
\* the new draft of version k+1 is appended and evaluated next; with k at
\* the maximum no Refiner is invoked and the run is exhausted.
C12_RefineOrExhaust ==
    \A k \in 1..Len(evaluations) :
        BelowBarNoPlateau(k) =>
            IF k < max_cycles
            THEN \/ /\ k = Len(evaluations)
                    /\ Len(drafts) = k
                    /\ Refiners = k - 1
                    /\ pc = "refine"
                 \/ /\ k = Len(evaluations)
                    /\ Len(drafts) = k
                    /\ Refiners = k
                    /\ pc = "error"
                    /\ Last(calls) = "refiner"
                 \/ /\ Len(drafts) >= k + 1
                    /\ drafts[k + 1].version = k + 1
                    /\ Refiners >= k
                    /\ Len(evaluations) >= k + 1 \/ AwaitingEvaluation
            ELSE /\ k = Len(evaluations)
                 /\ Len(drafts) = k
                 /\ Refiners = k - 1
                 /\ loop_exit = "exhausted"

\* C16: an Evaluation with 0 to 3 feedback entries that is below the bar
\* and not a plateau, before the last cycle, leads to a Refiner call; an
\* empty feedback list does not abort the run.
C16_EmptyFeedbackRefined ==
    \A k \in 1..Len(evaluations) :
        (BelowBarNoPlateau(k) /\ k < max_cycles
           /\ Len(evaluations[k].feedback) \in 0..3) =>
            /\ ~(pc = "error" /\ error = "IndexError")
            /\ pc = "refine" \/ Refiners >= k

\* the last provider call failed: service error or unparseable response
CallFailed == reply.outcome \in {"ServiceError", "Malformed"}

\* the call that got the last response, as it is named in calls
RepliedCall == IF reply.call = "scorers" THEN "scorer_2" ELSE reply.call

\* how many calls of the kind of the last one a run without retry has made
CallsWithoutRetry ==
    CASE reply.call = "evaluator" -> Len(evaluations) + 1
      [] reply.call = "refiner" -> Len(drafts)
      [] OTHER -> 1

\* C13: when an external call fails (service error or malformed response)
\* at any stage, the run aborts: no later stage is invoked, the call is
\* not retried, the error propagates out of run_flow and main, and no
\* FlowResult is produced.
C13_CallFailureAborts ==
    /\ [](CallFailed =>
            /\ pc = "error"
            /\ error \in {"CallFailed", "JSONDecodeError"}
            /\ result = <<>>
            /\ Last(calls) = RepliedCall
            /\ Count(calls, RepliedCall) = CallsWithoutRetry)
    /\ [][pc # "error"]_vars

C13_Witness ==
    /\ pc = "error"
    /\ reply = Reply("refiner", "Malformed", "")
    /\ Len(drafts) = 2
    /\ Refiners = 2

\* step5_format_and_criteria has returned a FormatSpec
FormatReturned == format_spec.minimum_bar # 0

\* C14: every FormatSpec step5_format_and_criteria returns has
\* MINIMUM_BAR_FLOOR <= minimum_bar <= 10 whatever minimum_bar the response
\* has (a lower one is raised to the floor), so that no run is accepted
\* with a total_score below the floor.
C14_BarFloored ==
    FormatReturned =>
        /\ format_spec.minimum_bar >= MINIMUM_BAR_FLOOR
        /\ format_spec.minimum_bar <= 100
        /\ format_data.has_minimum_bar =>
              format_spec.minimum_bar =
                  (IF format_data.minimum_bar < MINIMUM_BAR_FLOOR
                   THEN MINIMUM_BAR_FLOOR
                   ELSE format_data.minimum_bar)
        /\ (Returned /\ result[1].success) =>
              result[1].final_score >= MINIMUM_BAR_FLOOR

C14_Witness ==
    /\ format_data.has_minimum_bar
    /\ format_data.minimum_bar = 50
    /\ format_spec.minimum_bar = MINIMUM_BAR_FLOOR
    /\ Returned
    /\ result[1].success
    /\ result[1].final_score = 80

\* C15: in every stage that parses a structured response, a response that
\* lacks a required field is fatal: the stage raises, produces no result
\* and substitutes no default for the missing field.
C15_MissingFieldFatal ==
    reply.outcome = "MissingField" =>
        /\ pc = "error"
        /\ error \in {"KeyError", "ValidationError"}
        /\ result = <<>>
        /\ Last(calls) = RepliedCall
        /\ reply.call = "format" => ~FormatReturned

\* the score scorer call t gave for idea i, 5 when it gave none
GivenScore(t, i) == IF tasks[t].entries[i] = 0 THEN 50 ELSE tasks[t].entries[i]

\* C17: in step3_dual_scoring the two scorer calls are started together
\* and complete in either order; the scored-idea list is computed only
\* after both responses are in, its content does not depend on which
\* scorer finished first, and no list is produced if a scorer call fails.
C17_ForkJoin ==
    /\ [](pc = "gather" =>
            /\ tasks[1].status # "none"
            /\ tasks[2].status # "none"
            /\ Count(calls, "scorer_1") = 1
            /\ Count(calls, "scorer_2") = 1)
    /\ []((pc = "step4" \/ scored_ideas # <<>> \/ top_index # 0) =>
            /\ tasks[1].status = "done"
            /\ tasks[2].status = "done")
    /\ [](pc = "step4" =>
            /\ Len(scored_ideas) = ideas
            /\ \A i \in 1..ideas :
                  /\ scored_ideas[i].idea = i
                  /\ scored_ideas[i].score_1 = GivenScore(1, i)
                  /\ scored_ideas[i].score_2 = GivenScore(2, i))
    /\ []((tasks[1].status = "failed" \/ tasks[2].status = "failed") =>
            /\ pc = "error"
            /\ scored_ideas = <<>>
            /\ top_index = 0)

C17_Witness ==
    /\ pc = "step4"
    /\ first_done = 2
    /\ ideas >= 2
    /\ scored_ideas[1].score_1 = 90
    /\ scored_ideas[1].score_2 = 40

\* C18: step3b_select_top_idea returns the idea of highest combined_score
\* among those with score_delta > SCORE_DIVERGENCE_THRESHOLD if there is
\* one (even if a non-divergent idea has a higher combined_score), else
\* the idea of highest combined_score of all; on ties the earliest.
C18_TopIdea ==
    pc = "step4" =>
        LET divergent == {i \in 1..Len(scored_ideas) :
                             scored_ideas[i].score_delta > SCORE_DIVERGENCE_THRESHOLD}
            pool == IF divergent # {} THEN divergent ELSE 1..Len(scored_ideas)
        IN  /\ top_index \in pool
            /\ \A j \in pool :
                  /\ scored_ideas[j].combined_score
                        <= scored_ideas[top_index].combined_score
                  /\ scored_ideas[j].combined_score
                        = scored_ideas[top_index].combined_score => top_index <= j

C18_Witness ==
    /\ pc = "step4"
    /\ Len(scored_ideas) = 3
    /\ top_index = 2
    /\ scored_ideas[2].score_delta > SCORE_DIVERGENCE_THRESHOLD
    /\ scored_ideas[3].score_delta > SCORE_DIVERGENCE_THRESHOLD
    /\ scored_ideas[3].combined_score = scored_ideas[2].combined_score
    /\ scored_ideas[1].combined_score > scored_ideas[2].combined_score

\* C19: every FlowResult run_flow returns has success = true iff its
\* final_score >= minimum_bar, and has a failure_reason iff success = false.
C19_SuccessIffBarMet ==
    Returned =>
        /\ result[1].success <=> result[1].final_score >= format_spec.minimum_bar
        /\ result[1].failure_reason # NoReason <=> ~result[1].success
        /\ ~result[1].success => result[1].failure_reason \in Diagnoses

C19_Witness ==
    /\ Returned
    /\ ~result[1].success
    /\ result[1].final_score = 80
    /\ format_spec.minimum_bar = 85
    /\ result[1].failure_reason = ""

\* C20: whenever run_flow returns a FlowResult (max cycles >= 1) every
\* draft of the history has been evaluated: the Draft, Evaluation and
\* score histories have length cycles_used, final_draft is the last draft
\* and final_score is the total_score of the evaluation of that draft.
C20_ResultPairsLastDraft ==
    /\ pc = "evaluate" => draft.version = Len(evaluations) + 1
    /\ (Returned /\ max_cycles >= 1) =>
          /\ Len(drafts) = result[1].cycles_used
          /\ Len(evaluations) = result[1].cycles_used
          /\ Len(score_history) = result[1].cycles_used
          /\ result[1].cycles_used >= 1
          /\ result[1].final_draft = Last(drafts)
          /\ result[1].final_draft.version = Len(evaluations)
          /\ result[1].final_score = Last(evaluations).total_score
          /\ \A k \in 1..Len(evaluations) :
                score_history[k] = evaluations[k].total_score

C20_Witness ==
    /\ Returned
    /\ max_cycles = 4
    /\ result[1].cycles_used = 4
    /\ result[1].final_draft.version = 4
    /\ result[1].success

(***************************************************************************)
(* The refinement loop of run_flow (main.py:125-173) as a function of the  *)
(* responses it is given, run with the plateau flag of every Evaluation    *)
(* cleared.  A loop state is the record of the locals of run_flow.         *)
(***************************************************************************)
\* the calls of steps 2 to 6, made before the loop is entered
PreLoopCalls == <<"ideas", "scorer_1", "scorer_2", "format", "generator">>

\* step 6 has returned its draft: the loop is entered
LoopEntered == Len(drafts) >= 1

\* the Evaluation with "plateau = True" never executed
FlagCleared(evaluation) == [evaluation EXCEPT !.plateau_detected = FALSE]

\* the locals of run_flow after drafts.append(draft) of step 6
LoopEntry ==
    [pc |-> IF LoopContinues(-1) THEN "evaluate" ELSE "failure",
     cycle |-> 0,
     draft |-> step6_articulate,
     drafts |-> <<step6_articulate>>,
     evaluations |-> <<>>,
     score_history |-> <<>>,
     result |-> <<>>,
     calls |-> PreLoopCalls,
     error |-> ""]

\* the call raises and nothing catches it
Failed(t, e, call) ==
    [t EXCEPT !.pc = MainOutcome(e), !.error = e, !.calls = Append(@, call)]

\* one Evaluator call and the loop body after it, flag cleared
EvaluateFlagless(t, out, data) ==
    IF out # "ok" THEN Failed(t, ErrorOf(out, "KeyError"), "evaluator")
    ELSE LET evaluation == FlagCleared(step7_evaluate(data, t.score_history))
             decision == LoopDecision(evaluation, format_spec, t.cycle)
         IN  [t EXCEPT
                !.evaluations = Append(@, evaluation),
                !.score_history = Append(@, evaluation.total_score),
                !.calls = Append(@, "evaluator"),
                !.pc = CASE decision = "return" -> "done"
                         [] decision = "break" -> "failure"
                         [] decision = "IndexError" -> MainOutcome("IndexError")
                         [] decision = "refine" -> "refine"
                         [] decision = "next" -> "evaluate"
                         [] decision = "exhausted" -> "failure",
                !.result = IF decision = "return"
                           THEN <<SuccessResult(t.draft, evaluation, t.cycle)>>
                           ELSE @,
                !.cycle = IF decision = "next" THEN @ + 1 ELSE @,
                !.error = IF decision = "IndexError" THEN "IndexError" ELSE @]

\* one Refiner call, the append and the step to the next iteration
RefineFlagless(t, out) ==
    IF out # "ok" THEN Failed(t, ErrorOf(out, "KeyError"), "refiner")
    ELSE [t EXCEPT
            !.draft = step7b_refine(t.draft),
            !.drafts = Append(@, step7b_refine(t.draft)),
            !.calls = Append(@, "refiner"),
            !.pc = IF LoopContinues(t.cycle) THEN "evaluate" ELSE "failure",
            !.cycle = IF LoopContinues(t.cycle) THEN @ + 1 ELSE @]

\* the Failure Diagnoser call and the return of FlowResult(success=False)
DiagnoseFlagless(t, out, text) ==
    IF out # "ok" THEN Failed(t, ErrorOf(out, ""), "diagnoser")
    ELSE IF Len(t.score_history) = 0
         THEN [t EXCEPT !.calls = Append(@, "diagnoser"),
                        !.pc = MainOutcome("IndexError"),
                        !.error = "IndexError"]
         ELSE [t EXCEPT !.calls = Append(@, "diagnoser"),
                        !.pc = "done",
                        !.result = <<FailureResult(t.drafts, t.score_history,
                                                   t.evaluations, text)>>]

\* the flag-cleared loop from state t, given the responses the run got to
\* its calls i, i + 1, ...: the k-th Evaluator response is the recorded
\* total_score and feedback (the last one as received), every call but the
\* last returned, and the last one as reply says.  A call the flag-cleared
\* loop would not make at its position ends the comparison ("diverged").
RECURSIVE RunFlagless(_, _)
RunFlagless(t, i) ==
    IF i > Len(calls) THEN t
    ELSE LET call == calls[i]
             out == IF i = Len(calls) THEN reply.outcome ELSE "ok"
             k == Len(t.evaluations) + 1
             data == IF k >= Len(evaluations) THEN response
                     ELSE [total_score |-> score_history[k],
                           feedback |-> evaluations[k].feedback]
             next == CASE call = "evaluator" /\ t.pc = "evaluate" ->
                              EvaluateFlagless(t, out, data)
                       [] call = "refiner" /\ t.pc = "refine" ->
                              RefineFlagless(t, out)
                       [] call = "diagnoser" /\ t.pc = "failure" ->
                              DiagnoseFlagless(t, out, diagnosis)
                       [] OTHER -> [t EXCEPT !.pc = "diverged"]
         IN  RunFlagless(next, i + 1)

\* C21: with MAX_REFINEMENT_CYCLES = 3 plateau_detected is true only on
\* the 3rd evaluation, in the last cycle; and at every point of a run the
\* loop with the plateau flag always false, given the same responses, has
\* made the same calls in the same order, stands at the same place with
\* the same drafts and scores, and has returned the same FlowResult or
\* raised the same error: the plateau break never saves a call.
C21_PlateauSavesNothing ==
    /\ \A k \in 1..Len(evaluations) :
          evaluations[k].plateau_detected =>
              /\ k = 3
              /\ k = MAX_REFINEMENT_CYCLES
              /\ cycle = max_cycles - 1
    /\ LoopEntered =>
          LET t == RunFlagless(LoopEntry, Len(PreLoopCalls) + 1)
          IN  /\ SubSeq(calls, 1, Len(PreLoopCalls)) = PreLoopCalls
              /\ t.calls = calls
              /\ t.pc = pc
              /\ t.result = result
              /\ t.error = error
              /\ t.cycle = cycle
              /\ t.drafts = drafts
              /\ t.score_history = score_history
              /\ \A k \in 1..Len(evaluations) :
                    t.evaluations[k] = FlagCleared(evaluations[k])

\* the run breaks on a plateau below the bar and returns the failure
\* FlowResult after 3 Evaluator, 2 Refiner and 1 Failure Diagnoser calls
C21_Witness ==
    /\ Len(evaluations) = 3
    /\ evaluations[3].plateau_detected
    /\ evaluations[3].total_score < format_spec.minimum_bar
    /\ loop_exit = "plateaued"
    /\ pc = "done"
    /\ Returned
    /\ ~result[1].success
    /\ result[1].cycles_used = 3
    /\ Evaluators = 3 /\ Refiners = 2 /\ Diagnosers = 1

\* run_flow is over: it returned, or an exception left it (main re-raises
\* it, or reports a KeyboardInterrupt and returns)
Terminated == pc \in {"done", "error", "aborted"}

\* C22: when every external call returns or fails, every run terminates;
\* once the loop is entered it ends either with a FlowResult or with a
\* propagated error; at no point has a run made more than
\* MAX_REFINEMENT_CYCLES Evaluator calls, more than MAX_REFINEMENT_CYCLES - 1
\* Refiner calls (for a maximum of at least 1) or more than 1 Failure
\* Diagnoser call, failed calls included; and nothing happens after the end.
C22_LoopTerminates ==
    /\ <>[]Terminated
    /\ [](/\ Evaluators <= max_cycles
          /\ Refiners <= Max(max_cycles - 1, 0)
          /\ Diagnosers <= 1
          /\ cycle < Max(max_cycles, 1))
    /\ []((Terminated /\ LoopEntered) =>
             \/ pc = "done" /\ Returned /\ error = ""
             \/ pc = "error" /\ ~Returned /\ error # "")
    /\ [][~Terminated]_vars

\* a run that used every call the bounds allow and returned
C22_Witness ==
    /\ Terminated
    /\ Returned
    /\ max_cycles = 4
    /\ Evaluators = max_cycles
    /\ Refiners = max_cycles - 1
    /\ Diagnosers = 1
    /\ loop_exit = "exhausted"

====
